---- MODULE Spec2Model ----
(***************************************************************************)
(* Model of the three example scripts of PolyType:                         *)
(*   dist/examples/example.py      process_list, Calculator                *)
(*   examples/advanced_example.py  DataProcessor, create_processor         *)
(*   examples/gui_example.py       SimpleGUI                               *)
(* The scripts share no state, so each has its own specification           *)
(* (SpecCalc, SpecList, SpecProc, SpecGUI) over its own variables.         *)
(***************************************************************************)
EXTENDS Integers, Sequences, FiniteSets

\* ---------------------------------------------------------------- bounds
MaxAmount == 2        \* add() amounts and list/data items range over -MaxAmount..MaxAmount
MaxCalls == 4         \* number of Calculator calls explored
MaxListLen == 3       \* length of the list handed to process_list
MaxData == 3          \* number of items a DataProcessor holds
MaxLen == 6           \* characters in the GUI display
MaxDigit == 2         \* digit buttons 0..MaxDigit are clicked

Amounts == (0 - MaxAmount)..MaxAmount

VARIABLES
    \* Calculator
    value,            \* Calculator.value
    initial_value,    \* the constructor argument (kept for reference)
    added,            \* history: sum of the amounts passed to add
    calcRet,          \* return value of the last Calculator call
    calcPre,          \* history: value before the last Calculator call
    calcCalls,        \* history: number of calls made
    \* process_list
    numbers,          \* the caller's list object
    original,         \* history: the list as first supplied
    listRet,          \* return values of the process_list calls, in order
    listPre,          \* history: the list before the last call
    \* DataProcessor
    data,             \* DataProcessor.data
    processed,        \* DataProcessor.processed
    procRet,          \* return value of the last process_data call
    dataPre,          \* history: data before the last call
    processedPre,     \* history: processed before the last call
    stats,            \* return value of the last get_statistics call
    item,             \* argument of the last add_item call
    returned,         \* history: process_data returned at least once
    addedTotal,       \* history: sum of the items passed to add_item
    addedCount,       \* history: number of add_item calls
    lateAdds,         \* history: number of add_item calls made while processed
    \* SimpleGUI
    result_var,       \* the display text, a sequence of characters
    dialog,           \* message of the dialog shown by the last handler, or "none"
    escaped,          \* an exception left the last handler
    textPre,          \* history: display text before the last click
    clicks,           \* history: labels of the digit and '+' buttons clicked since
                      \* the last 'C' (or start), kept up to the first '=' after it
    equalsClicks,     \* history: '=' clicks since the last 'C' (or start), counted up to 2
    \* shared
    lastOp            \* name of the last operation executed

calcVars == <<value, initial_value, added, calcRet, calcPre, calcCalls>>
listVars == <<numbers, original, listRet, listPre>>
procVars == <<data, processed, procRet, stats, item, dataPre, processedPre,
              returned, addedTotal, addedCount, lateAdds>>
guiVars == <<result_var, dialog, escaped, textPre, clicks, equalsClicks>>
vars == <<calcVars, listVars, procVars, guiVars, lastOp>>

\* --------------------------------------------------------------- helpers
None == "None"

\* Python's sum(): left fold with +, starting from 0.
RECURSIVE sum(_)
sum(s) == IF s = <<>> THEN 0 ELSE sum(SubSeq(s, 1, Len(s) - 1)) + s[Len(s)]

\* one step of insertion: x is placed after the last element <= x
RECURSIVE insort(_, _)
insort(s, x) ==
    IF s = <<>> THEN <<x>>
    ELSE IF s[Len(s)] <= x THEN Append(s, x)
    ELSE Append(insort(SubSeq(s, 1, Len(s) - 1), x), s[Len(s)])

SortDedupMutant(s) ==
    LET RECURSIVE ins(_, _)
        ins(t, x) == IF t = <<>> THEN <<x>>
                     ELSE IF t[Len(t)] = x THEN t
                     ELSE IF t[Len(t)] < x THEN Append(t, x)
                     ELSE Append(ins(SubSeq(t, 1, Len(t) - 1), x), t[Len(t)])
        RECURSIVE go(_)
        go(t) == IF t = <<>> THEN <<>> ELSE ins(go(SubSeq(t, 1, Len(t) - 1)), t[Len(t)])
    IN go(s)

SortNotInPlaceMutant(s) == s

\* list.sort(): ascending, stable (binary insertion sort for short lists)
RECURSIVE sort(_)
sort(s) == IF s = <<>> THEN <<>>
           ELSE insort(sort(SubSeq(s, 1, Len(s) - 1)), s[Len(s)])

\* Python's max() of a non-empty list: first largest element
RECURSIVE max(_)
max(s) == IF Len(s) = 1 THEN s[1]
          ELSE LET m == max(SubSeq(s, 1, Len(s) - 1))
               IN IF s[Len(s)] > m THEN s[Len(s)] ELSE m

SeqsUpTo(S, n) == UNION {[1..k -> S] : k \in 0..n}

\* ------------------------------------------------------------ Calculator
InitRest(which) ==
    /\ IF which = "calc" THEN TRUE
       ELSE /\ value = 0 /\ initial_value = 0 /\ added = 0
            /\ calcRet = None /\ calcPre = 0 /\ calcCalls = 0
    /\ IF which = "list" THEN TRUE
       ELSE /\ numbers = <<>> /\ original = <<>> /\ listRet = <<>> /\ listPre = <<>>
    /\ IF which = "proc" THEN TRUE
       ELSE /\ data = <<>> /\ processed = FALSE /\ procRet = <<>>
            /\ stats = None /\ item = 0
            /\ dataPre = <<>> /\ processedPre = FALSE
            /\ returned = FALSE /\ addedTotal = 0 /\ addedCount = 0
            /\ lateAdds = 0
    /\ IF which = "gui" THEN TRUE
       ELSE /\ result_var = <<>> /\ dialog = "none" /\ escaped = FALSE
            /\ textPre = <<>> /\ clicks = <<>> /\ equalsClicks = 0
    /\ lastOp = "init"

\* Calculator.__init__(initial_value)
InitCalc ==
    /\ initial_value \in Amounts
    /\ value = initial_value
    /\ added = 0 /\ calcRet = None /\ calcPre = value /\ calcCalls = 0
    /\ InitRest("calc")

AddReturnsOldMutant(amount) ==
    /\ calcCalls < MaxCalls
    /\ value' = value + amount
    /\ calcRet' = value
    /\ added' = added + amount
    /\ calcPre' = value
    /\ calcCalls' = calcCalls + 1
    /\ lastOp' = "add"
    /\ UNCHANGED <<initial_value, listVars, procVars, guiVars>>

\* Calculator.add(amount)
add(amount) ==
    /\ calcCalls < MaxCalls
    /\ value' = value + amount
    /\ calcRet' = value'
    /\ added' = added + amount
    /\ calcPre' = value
    /\ calcCalls' = calcCalls + 1
    /\ lastOp' = "add"
    /\ UNCHANGED <<initial_value, listVars, procVars, guiVars>>

\* Calculator.get_value()
get_value ==
    /\ calcCalls < MaxCalls
    /\ calcRet' = value
    /\ calcPre' = value
    /\ calcCalls' = calcCalls + 1
    /\ lastOp' = "get_value"
    /\ UNCHANGED <<value, initial_value, added, listVars, procVars, guiVars>>

NextCalc == (\E amount \in Amounts : add(amount)) \/ get_value

SpecCalc == InitCalc /\ [][NextCalc]_vars

\* C1: the stored value is the initial value plus the sum of the added
\* amounts; add returns the value stored after the call; get_value returns
\* the stored value and leaves it as it was.
C1_ValueIsInitialPlusAdded ==
    /\ value = initial_value + added
    /\ lastOp = "add" => calcRet = value
    /\ lastOp = "get_value" => calcRet = value /\ value = calcPre

C1_Witness ==
    /\ lastOp = "get_value" /\ calcCalls = 4
    /\ added = 3 /\ initial_value = 0 - 1 /\ calcRet = 2

\* ---------------------------------------------------------- process_list
InitList ==
    /\ numbers \in SeqsUpTo(Amounts, MaxListLen)
    /\ original = numbers /\ listRet = <<>> /\ listPre = numbers
    /\ InitRest("list")

\* process_list(numbers): numbers.sort(); return sum(numbers)
process_list ==
    /\ Len(listRet) < 2
    /\ numbers' = sort(numbers)
    /\ listRet' = Append(listRet, sum(numbers'))
    /\ listPre' = numbers
    /\ lastOp' = "process_list"
    /\ UNCHANGED <<original, calcVars, procVars, guiVars>>

NextList == process_list

SpecList == InitList /\ [][NextList]_vars

Count(s, x) == Cardinality({i \in 1..Len(s) : s[i] = x})

\* the arithmetic sum of a list, computed per value and so independent of order
RECURSIVE WeightedSum(_, _)
WeightedSum(s, S) ==
    IF S = {} THEN 0
    ELSE LET x == CHOOSE y \in S : TRUE
         IN x * Count(s, x) + WeightedSum(s, S \ {x})

ArithmeticSum(s) == WeightedSum(s, {s[i] : i \in 1..Len(s)})

IsAscending(s) == \A i \in 1..(Len(s) - 1) : s[i] <= s[i + 1]

IsPermutation(s, t) ==
    /\ Len(s) = Len(t)
    /\ \A x \in Amounts : Count(s, x) = Count(t, x)

\* C4: process_list returns the arithmetic sum of the elements supplied,
\* whatever their order (empty list, duplicates and negatives included).
C4_ReturnsArithmeticSum ==
    \A i \in 1..Len(listRet) : listRet[i] = ArithmeticSum(original)

C4_Witness ==
    /\ Len(listRet) = 1 /\ original = <<2, 0 - 1, 2>> /\ listRet[1] = 3

\* C10: after a call the caller's list is ascending and a permutation of
\* what it was; a second call returns the same sum and leaves the list as is.
C10_SortsCallersList ==
    /\ Len(listRet) >= 1 =>
          /\ IsAscending(numbers)
          /\ IsPermutation(numbers, listPre)
          /\ IsPermutation(numbers, original)
    /\ Len(listRet) = 2 => listRet[2] = listRet[1] /\ numbers = listPre

C10_Witness ==
    /\ Len(listRet) = 2 /\ original = <<2, 0 - 1, 2>> /\ numbers = <<0 - 1, 2, 2>>

\* --------------------------------------------------------- DataProcessor
MaxInitial == 1       \* length of the initial_data handed to create_processor

PrependMutant(d, x) == <<x>> \o d

\* self.data.append(item)
append(d, x) == Append(d, x)

\* create_processor(name, initial_data): a new processor, then add_item for
\* each entry when initial_data is truthy (neither None nor empty)
create_processor(initial_data) ==
    LET RECURSIVE fill(_, _)
        fill(d, rest) == IF rest = <<>> THEN d
                         ELSE fill(append(d, Head(rest)), Tail(rest))
    IN IF initial_data.isNone \/ initial_data.items = <<>> THEN <<>>
       ELSE fill(<<>>, initial_data.items)

InitialData ==
    {[isNone |-> TRUE, items |-> <<>>]}
    \cup {[isNone |-> FALSE, items |-> s] : s \in SeqsUpTo(Amounts, MaxInitial)}

InitProc ==
    /\ \E initial_data \in InitialData :
          /\ data = create_processor(initial_data)
          /\ addedTotal = sum(initial_data.items)
          /\ addedCount = Len(initial_data.items)
    /\ processed = FALSE
    /\ procRet = <<>> /\ stats = None /\ item = 0
    /\ dataPre = data /\ processedPre = FALSE
    /\ returned = FALSE /\ lateAdds = 0
    /\ InitRest("proc")

\* DataProcessor.add_item(item)
add_item(x) ==
    /\ Len(data) < MaxData
    /\ data' = append(data, x)
    /\ item' = x
    /\ dataPre' = data /\ processedPre' = processed
    /\ addedTotal' = addedTotal + x
    /\ addedCount' = addedCount + 1
    /\ lateAdds' = IF processed THEN lateAdds + 1 ELSE lateAdds
    /\ lastOp' = "add_item"
    /\ UNCHANGED <<processed, procRet, stats, returned, calcVars, listVars, guiVars>>

DoubleNonNegativeMutant(d) ==
    LET RECURSIVE loop(_, _)
        loop(i, result) ==
            IF i > Len(d) THEN result
            ELSE IF d[i] >= 0 THEN loop(i + 1, Append(result, d[i] * 2))
            ELSE loop(i + 1, result)
    IN loop(1, <<>>)

\* the loop of process_data: for item in self.data: if item > 0: append item * 2
double_positive(d) ==
    LET RECURSIVE loop(_, _)
        loop(i, result) ==
            IF i > Len(d) THEN result
            ELSE IF d[i] > 0 THEN loop(i + 1, Append(result, d[i] * 2))
            ELSE loop(i + 1, result)
    IN loop(1, <<>>)

\* the body of process_data as a function of the object's fields: the
\* returned list and the value of self.processed at the return
process_data_body(d, p) ==
    IF d = <<>> THEN [result |-> <<>>, processed |-> p]
    ELSE [result |-> double_positive(d), processed |-> TRUE]

\* DataProcessor.process_data()
process_data ==
    LET r == process_data_body(data, processed)
    IN /\ procRet' = r.result
       /\ processed' = r.processed
       /\ returned' = TRUE
       /\ dataPre' = data /\ processedPre' = processed
       /\ lastOp' = "process_data"
       /\ UNCHANGED <<data, stats, item, addedTotal, addedCount, lateAdds,
                      calcVars, listVars, guiVars>>

\* Python's int / int: the exact quotient, kept as a fraction in lowest
\* terms with a positive denominator; division by zero raises
RECURSIVE gcd(_, _)
gcd(a, b) == IF b = 0 THEN a ELSE gcd(b, a % b)

abs(a) == IF a < 0 THEN 0 - a ELSE a

truediv(a, b) ==
    IF b = 0 THEN [exc |-> "ZeroDivisionError"]
    ELSE LET g == gcd(abs(a), abs(b))
             sgn == IF b < 0 THEN 0 - 1 ELSE 1
         IN [num |-> sgn * (a \div g), den |-> sgn * (b \div g)]

StatisticsOfProcessedMutant(d) ==
    LET total == sum(double_positive(d))
        count == Len(d)
    IN [total |-> total,
        count |-> count,
        average |-> IF count > 0 THEN truediv(total, count) ELSE 0,
        max |-> IF d # <<>> THEN max(d) ELSE 0]

\* lines 31-40 of get_statistics: the dictionary built from self.data
statistics(d) ==
    LET total == sum(d)
        count == Len(d)
    IN [total |-> total,
        count |-> count,
        average |-> IF count > 0 THEN truediv(total, count) ELSE 0,
        max |-> IF d # <<>> THEN max(d) ELSE 0]

\* DataProcessor.get_statistics()
get_statistics ==
    LET r == IF ~processed THEN process_data_body(data, processed)
             ELSE [result |-> procRet, processed |-> processed]
    IN /\ processed' = r.processed
       /\ returned' = (returned \/ ~processed)
       /\ stats' = statistics(data)
       /\ dataPre' = data /\ processedPre' = processed
       /\ lastOp' = "get_statistics"
       /\ UNCHANGED <<data, procRet, item, addedTotal, addedCount, lateAdds,
                      calcVars, listVars, guiVars>>

NextProc == (\E x \in Amounts : add_item(x)) \/ process_data \/ get_statistics

SpecProc == InitProc /\ [][NextProc]_vars

\* C2: processed is true exactly when process_data has returned at least
\* once (directly or through get_statistics).
C2_ProcessedIffReturned == processed <=> returned

\* C3: process_data returns the strictly positive entries of data, in
\* their order, each doubled; the length is the number of positive entries.
C3_DoublesPositiveEntries ==
    lastOp = "process_data" =>
        LET kept == SelectSeq(data, LAMBDA x : x > 0)
        IN /\ Len(procRet) = Cardinality({i \in 1..Len(data) : data[i] > 0})
           /\ Len(procRet) = Len(kept)
           /\ \A k \in 1..Len(kept) : procRet[k] = 2 * kept[k]
           /\ data = <<>> => procRet = <<>>

C3_Witness ==
    /\ lastOp = "process_data" /\ data = <<2, 0, 0 - 1>> /\ procRet = <<4>>

\* C6: get_statistics returns count = len(data), total = sum of all entries,
\* max = the largest entry, average = total / count; all four are 0 when
\* data is empty.
C6_StatisticsOfData ==
    lastOp = "get_statistics" =>
        /\ stats.count = Len(data)
        /\ stats.total = ArithmeticSum(data)
        /\ data # <<>> =>
              /\ \E i \in 1..Len(data) : stats.max = data[i]
              /\ \A i \in 1..Len(data) : data[i] <= stats.max
              /\ stats.average.den > 0
              /\ stats.average.num * stats.count = stats.total * stats.average.den
        /\ data = <<>> =>
              stats = [total |-> 0, count |-> 0, average |-> 0, max |-> 0]

C6_Witness ==
    /\ lastOp = "get_statistics" /\ data = <<0 - 2, 1, 0 - 1>>
    /\ stats.total = 0 - 2 /\ stats.max = 1
    /\ stats.average = [num |-> 0 - 2, den |-> 3]

C6_WitnessEmpty ==
    /\ lastOp = "get_statistics" /\ data = <<>> /\ stats.count = 0

\* C9: only add_item changes data, by appending its argument; every
\* get_statistics reports total, count and max of all items added so far,
\* whatever the processed flag was.
C9_OnlyAddItemChangesData ==
    /\ lastOp \in {"process_data", "get_statistics"} => data = dataPre
    /\ lastOp = "add_item" => data = dataPre \o <<item>>
    /\ lastOp = "get_statistics" =>
          /\ stats.total = addedTotal
          /\ stats.count = addedCount
          /\ addedCount > 0 => /\ \E i \in 1..Len(data) : stats.max = data[i]
                               /\ \A i \in 1..Len(data) : data[i] <= stats.max

C9_Witness ==
    /\ lastOp = "get_statistics" /\ processedPre /\ lateAdds = 2
    /\ data = <<1, 0 - 1, 2>> /\ stats.total = 2 /\ stats.count = 3 /\ stats.max = 2

\* ------------------------------------------------------------- SimpleGUI
NumButtons == 10      \* for i in range(10): one button per digit

DigitButtons == 0..(NumButtons - 1)

\* str(i) for the digits, indexed by i + 1
DigitChars == <<"0", "1", "2", "3", "4", "5", "6", "7", "8", "9">>

IsDigit(c) == \E d \in 1..Len(DigitChars) : DigitChars[d] = c

DigitValue(c) == (CHOOSE d \in 1..Len(DigitChars) : DigitChars[d] = c) - 1

\* str(n) of an int: its decimal representation
RECURSIVE str(_)
str(n) ==
    IF n < 0 THEN <<"-">> \o str(0 - n)
    ELSE IF n < 10 THEN <<DigitChars[n + 1]>>
    ELSE str(n \div 10) \o <<DigitChars[(n % 10) + 1]>>

\* the tokens of a text: blanks separate tokens, a maximal run of digits is
\* one NUMBER, '+' is an operator
tokenize(text) ==
    LET RECURSIVE scan(_, _)
        scan(i, toks) ==
            IF i > Len(text) THEN toks
            ELSE IF text[i] = " " THEN scan(i + 1, toks)
            ELSE IF text[i] = "+" THEN scan(i + 1, Append(toks, [kind |-> "op", text |-> <<"+">>]))
            ELSE LET stops == {j \in i..Len(text) : ~IsDigit(text[j])}
                     end == IF stops = {} THEN Len(text) + 1
                            ELSE CHOOSE j \in stops : \A k \in stops : j <= k
                 IN scan(end, Append(toks, [kind |-> "num", text |-> SubSeq(text, i, end - 1)]))
    IN scan(1, <<>>)

\* a decimal integer literal: a non-zero digit followed by digits, or zeros only
valid_literal(t) == t[1] # "0" \/ \A i \in 1..Len(t) : t[i] = "0"

RECURSIVE literal_value(_)
literal_value(t) ==
    IF t = <<>> THEN 0
    ELSE 10 * literal_value(SubSeq(t, 1, Len(t) - 1)) + DigitValue(t[Len(t)])

\* eval(expression) for the texts the buttons can produce: an expression is
\* operands joined by binary '+', an operand is a NUMBER behind any number
\* of unary '+'; anything else raises SyntaxError
eval(expression) ==
    LET toks == tokenize(expression)
        RECURSIVE parse(_, _, _)
        parse(i, acc, needOperand) ==
            IF i > Len(toks)
            THEN IF needOperand THEN [ok |-> FALSE, exc |-> "SyntaxError"]
                 ELSE [ok |-> TRUE, value |-> acc]
            ELSE IF toks[i].kind = "op" THEN parse(i + 1, acc, TRUE)
            ELSE IF ~needOperand \/ ~valid_literal(toks[i].text)
                 THEN [ok |-> FALSE, exc |-> "SyntaxError"]
                 ELSE parse(i + 1, acc + literal_value(toks[i].text), FALSE)
    IN parse(1, 0, TRUE)

ExceptValueErrorMutant(exc) == exc = "ValueError"

\* the bare "except:" clause catches every exception
except(exc) == TRUE

InitGUI ==
    /\ result_var = <<>>
    /\ dialog = "none" /\ escaped = FALSE
    /\ textPre = <<>> /\ clicks = <<>> /\ equalsClicks = 0
    /\ InitRest("gui")

guiFrame == UNCHANGED <<calcVars, listVars, procVars>>

\* SimpleGUI.number_click(num)
number_click(num) ==
    /\ Len(result_var) + 1 <= MaxLen
    /\ LET current == result_var
       IN result_var' = current \o str(num)
    /\ textPre' = result_var
    /\ clicks' = IF equalsClicks = 0 THEN Append(clicks, DigitChars[num + 1]) ELSE <<>>
    /\ dialog' = "none" /\ escaped' = FALSE
    /\ lastOp' = "number_click"
    /\ UNCHANGED equalsClicks
    /\ guiFrame

OperationClickNoBlanksMutant(op) ==
    /\ Len(result_var) + 3 <= MaxLen
    /\ LET current == result_var
       IN result_var' = current \o <<op>>
    /\ textPre' = result_var
    /\ clicks' = IF equalsClicks = 0 THEN Append(clicks, op) ELSE <<>>
    /\ dialog' = "none" /\ escaped' = FALSE
    /\ lastOp' = "operation_click"
    /\ UNCHANGED equalsClicks
    /\ guiFrame

\* SimpleGUI.operation_click(op)
operation_click(op) ==
    /\ Len(result_var) + 3 <= MaxLen
    /\ LET current == result_var
       IN result_var' = current \o <<" ">> \o <<op>> \o <<" ">>
    /\ textPre' = result_var
    /\ clicks' = IF equalsClicks = 0 THEN Append(clicks, op) ELSE <<>>
    /\ dialog' = "none" /\ escaped' = FALSE
    /\ lastOp' = "operation_click"
    /\ UNCHANGED equalsClicks
    /\ guiFrame

\* SimpleGUI.calculate()
calculate ==
    /\ LET expression == result_var
           result == eval(expression)
       IN IF result.ok
          THEN /\ result_var' = str(result.value)
               /\ dialog' = "none" /\ escaped' = FALSE
          ELSE IF except(result.exc)
          THEN /\ dialog' = "Invalid expression" /\ escaped' = FALSE
               /\ UNCHANGED result_var
          ELSE /\ dialog' = "none" /\ escaped' = TRUE
               /\ UNCHANGED result_var
    /\ textPre' = result_var
    /\ equalsClicks' = IF equalsClicks < 2 THEN equalsClicks + 1 ELSE 2
    /\ clicks' = IF equalsClicks = 0 THEN clicks ELSE <<>>
    /\ lastOp' = "calculate"
    /\ guiFrame

\* SimpleGUI.clear()
clear ==
    /\ result_var' = <<>>
    /\ textPre' = result_var
    /\ clicks' = <<>> /\ equalsClicks' = 0
    /\ dialog' = "none" /\ escaped' = FALSE
    /\ lastOp' = "clear"
    /\ guiFrame

NextGUI ==
    \/ \E num \in DigitButtons : num <= MaxDigit /\ number_click(num)
    \/ operation_click("+")
    \/ calculate
    \/ clear

SpecGUI == InitGUI /\ [][NextGUI]_vars

\* the text the claim expects for a list of button labels
RECURSIVE Concatenation(_)
Concatenation(labels) ==
    IF labels = <<>> THEN <<>>
    ELSE LET rest == Concatenation(SubSeq(labels, 1, Len(labels) - 1))
             last == labels[Len(labels)]
         IN IF last = "+" THEN rest \o <<" ", "+", " ">> ELSE Append(rest, last)

\* C5: when evaluation of the display text fails (empty text, trailing
\* operator, malformed number, ...), calculate shows "Invalid expression",
\* lets no exception out and leaves the display text as it was.
C5_FailureShowsDialog ==
    (/\ lastOp = "calculate"
     /\ \/ ~eval(textPre).ok
        \/ textPre = <<>>
        \/ textPre # <<>> /\ textPre[Len(textPre)] = " ")
    => /\ dialog = "Invalid expression"
       /\ ~escaped
       /\ result_var = textPre

C5_Witness ==
    /\ lastOp = "calculate" /\ textPre = <<"1", " ", "+", " ">>
    /\ dialog = "Invalid expression" /\ result_var = textPre

\* C7: while no '=' has been clicked, the display text is the concatenation
\* of the labels clicked since the last 'C', a '+' contributing " + ";
\* 'C' empties the display.
C7_DisplayIsConcatenation ==
    /\ equalsClicks = 0 => result_var = Concatenation(clicks)
    /\ lastOp = "clear" => result_var = <<>>

C7_Witness ==
    /\ equalsClicks = 0 /\ clicks = <<"1", "+", "0", "2">>
    /\ result_var = <<"1", " ", "+", " ", "0", "2">>

C7_WitnessClear ==
    /\ lastOp = "clear" /\ textPre = <<"1", " ", "+", " ">> /\ result_var = <<>>

\* the numbers denoted by the digit runs of a list of labels, summed
RECURSIVE SumOfRuns(_, _, _)
SumOfRuns(labels, i, run) ==
    IF i > Len(labels) THEN run
    ELSE IF labels[i] = "+" THEN run + SumOfRuns(labels, i + 1, 0)
    ELSE SumOfRuns(labels, i + 1, 10 * run + DigitValue(labels[i]))

\* non-empty digit runs separated by single '+'
WellFormed(labels) ==
    /\ labels # <<>>
    /\ labels[1] # "+" /\ labels[Len(labels)] # "+"
    /\ \A i \in 1..(Len(labels) - 1) : ~(labels[i] = "+" /\ labels[i + 1] = "+")

\* C8: '=' on a text built from digit and '+' clicks only, made of non-empty
\* digit runs separated by single " + ", shows the decimal sum of the runs
\* and no error dialog.
C8_EqualsShowsSum ==
    (lastOp = "calculate" /\ equalsClicks = 1 /\ WellFormed(clicks))
    => /\ dialog = "none"
       /\ result_var = str(SumOfRuns(clicks, 1, 0))

====
